---- MODULE Spec2Model ----
(***************************************************************************)
(* Settlement engine of the predict-duel program                           *)
(* (src/solana-program/programs/predict-duel/src/lib.rs).                  *)
(*                                                                         *)
(* One market (one `market` account, one `market_vault`) and the           *)
(* Participant accounts derived from it are modelled; markets never read   *)
(* or write each other's accounts.  The six instructions are the actions.  *)
(* An instruction that returns an error leaves every account as it was     *)
(* (the runtime discards the writes of a failed instruction); the model    *)
(* records the instruction and its error in `last`.                        *)
(*                                                                         *)
(* Lamport amounts are u64 in the program and the payout is computed in    *)
(* u128 and narrowed with `as u64`.  TLC's integers are 32 bits wide, so   *)
(* an amount is held as a little-endian sequence of 15-bit limbs without   *)
(* leading zero limbs (<<>> is 0); the operators below are exact integer   *)
(* arithmetic on that representation.                                      *)
(***************************************************************************)
EXTENDS Integers, Sequences, FiniteSets, TLC

\* ------------------------------------------------------------------------
\* Program constants
\* ------------------------------------------------------------------------
MIN_STAKE == 10000000
MAX_QUESTION_LEN == 200
\* Lamports the vault is created with: `init, payer = creator, space = 0`
\* funds the account with the rent-exempt minimum of a data-less account.
VAULT_RENT == 890880

\* ------------------------------------------------------------------------
\* Bounds of the model
\* ------------------------------------------------------------------------
MaxBets == 3
MaxClock == 2
MaxClaimCalls == 2

Identity == {"alice", "bob"}
\* The market account modelled is the one at the address derived from this
\* creator's key (`seeds = [b"market", creator.key(), market_index]`): a
\* create_market signed by another key initializes another market.
CREATOR == "alice"

\* ------------------------------------------------------------------------
\* Wide unsigned integers
\* ------------------------------------------------------------------------
LIMB == 32768

RECURSIVE Norm(_)
Norm(a) == IF a = <<>> THEN a
           ELSE IF a[Len(a)] = 0 THEN Norm(SubSeq(a, 1, Len(a) - 1)) ELSE a

RECURSIVE Wide(_)
Wide(n) == IF n = 0 THEN <<>> ELSE <<n % LIMB>> \o Wide(n \div LIMB)

Limb(a, i) == IF i <= Len(a) THEN a[i] ELSE 0
Rest(a) == IF a = <<>> THEN a ELSE Tail(a)

RECURSIVE AddC(_, _, _)
AddC(a, b, c) ==
    IF a = <<>> /\ b = <<>> THEN (IF c = 0 THEN <<>> ELSE <<c>>)
    ELSE LET s == Limb(a, 1) + Limb(b, 1) + c
         IN  <<s % LIMB>> \o AddC(Rest(a), Rest(b), s \div LIMB)

Add(a, b) == AddC(a, b, 0)

RECURSIVE SubB(_, _, _)
SubB(a, b, c) ==
    IF a = <<>> THEN <<>>
    ELSE LET d == a[1] - Limb(b, 1) - c
         IN  <<d % LIMB>> \o SubB(Tail(a), Rest(b), IF d < 0 THEN 1 ELSE 0)

\* a - b for b <= a
Sub(a, b) == Norm(SubB(a, b, 0))

RECURSIVE LtFrom(_, _, _)
LtFrom(a, b, i) == IF i = 0 THEN FALSE
                   ELSE IF a[i] # b[i] THEN a[i] < b[i]
                   ELSE LtFrom(a, b, i - 1)

Lt(a, b) == IF Len(a) # Len(b) THEN Len(a) < Len(b) ELSE LtFrom(a, b, Len(a))
Le(a, b) == ~Lt(b, a)

RECURSIVE MulLimb(_, _, _)
MulLimb(a, d, c) ==
    IF a = <<>> THEN (IF c = 0 THEN <<>> ELSE <<c>>)
    ELSE LET p == a[1] * d + c
         IN  <<p % LIMB>> \o MulLimb(Tail(a), d, p \div LIMB)

RECURSIVE Mul(_, _)
Mul(a, b) == IF a = <<>> \/ b = <<>> THEN <<>>
             ELSE LET hi == Mul(a, Tail(b))
                  IN  Norm(Add(MulLimb(a, b[1], 0),
                               IF hi = <<>> THEN <<>> ELSE <<0>> \o hi))

\* One limb of the quotient: for r < c * LIMB, <<r div c, r mod c>>.  The
\* limb is estimated from the leading limbs of r and c, never too low, and
\* lowered until its product with c fits r.
RECURSIVE DivFix(_, _, _)
DivFix(r, c, q) ==
    LET p == MulLimb(c, q, 0)
    IN  IF Lt(r, p) THEN DivFix(r, c, q - 1) ELSE <<q, Sub(r, p)>>

DivStep(r, c) ==
    IF Lt(r, c) THEN <<0, r>>
    ELSE LET n   == Len(c)
             rh  == IF Len(r) > n THEN r[n + 1] * LIMB + r[n] ELSE r[n]
             est == rh \div c[n]
         IN  DivFix(r, c, IF est > LIMB - 1 THEN LIMB - 1 ELSE est)

\* <<n div c, n mod c>> for c > 0, one limb of n at a time from the top
RECURSIVE DivRem(_, _)
DivRem(n, c) ==
    IF n = <<>> THEN << <<>>, <<>> >>
    ELSE LET h == DivRem(Tail(n), c)
             s == DivStep(Norm(<<n[1]>> \o h[2]), c)
         IN  << Norm(<<s[1]>> \o h[1]), s[2] >>

\* n div c for c > 0.  Both are scaled by d first, which leaves the quotient
\* as it is and makes the leading limb of the divisor at least LIMB / 2, so
\* that the estimate of DivStep is at most 2 too high.
Div(n, c) ==
    LET d == LIMB \div (c[Len(c)] + 1)
    IN  DivRem(MulLimb(n, d, 0), MulLimb(c, d, 0))[1]

\* `x as u64`: the low 64 bits, i.e. four whole limbs (60 bits) and the low
\* four bits of the fifth.
AsU64(x) == Norm([i \in 1..(IF Len(x) < 5 THEN Len(x) ELSE 5) |->
                     IF i = 5 THEN x[i] % 16 ELSE x[i]])


\* ------------------------------------------------------------------------
\* Inputs of the instructions
\* ------------------------------------------------------------------------
\* Stake amounts offered to create_market and place_bet: one lamport below
\* the minimum, the minimum, and two larger amounts.  With DRAIN_STAKE the
\* quotient of a payout can land exactly on the whole vault balance, with
\* WRAP_STAKE (about 13,582 SOL) it can pass 2^64.
DRAIN_STAKE == Wide(10582606)
WRAP_STAKE == Add(Mul(Wide(13581869), Wide(1000000)), Wide(131295))
MinStake == Wide(MIN_STAKE)
StakeInputs == {Wide(MIN_STAKE - 1), MinStake, DRAIN_STAKE, WRAP_STAKE}
\* The advisory stake_amount offered to create_market.
AdvisoryStakeInputs == {Wide(MIN_STAKE - 1), MinStake}
RentExempt == Wide(VAULT_RENT)
QuestionLens == {MAX_QUESTION_LEN, MAX_QUESTION_LEN + 1}
Deadlines == 0..MaxClock

\* ------------------------------------------------------------------------
\* State
\* ------------------------------------------------------------------------
VARIABLES
    market,        \* the Market account (is_init = FALSE before create_market)
    participants,  \* the Participant account of each bettor for this market
    vault,         \* lamports held by market_vault
    clock,         \* Clock::get()?.unix_timestamp
    claimPaid,     \* per bettor, the payouts claim_winnings transferred to it
    refundPaid,    \* per bettor, the refunds refund_stake transferred to it
    claimLog,      \* per bettor whose prediction is the outcome, the results
                   \* of its claim_winnings calls on the Resolved market
    last           \* the last instruction run, its signer, arguments, result

vars == <<market, participants, vault, clock, claimPaid, refundPaid, claimLog, last>>

\* Option<bool>: <<>> is None, <<b>> is Some(b)
None == <<>>
Some(b) == <<b>>

NoMarket ==
    [is_init |-> FALSE, creator |-> CREATOR, stake_amount |-> <<>>,
     deadline |-> 0, status |-> "Pending", pool_size |-> <<>>,
     yes_count |-> 0, no_count |-> 0, yes_pool |-> <<>>, no_pool |-> <<>>,
     total_participants |-> 0, outcome |-> None]

\* A Participant account that init_if_needed has not created yet, or has just
\* created zeroed: `participant.market == Pubkey::default()`.
NoParticipant ==
    [is_init |-> FALSE, prediction |-> FALSE, stake |-> <<>>, claimed |-> FALSE]

\* The record of an instruction: the boolean argument and the amount moved
\* are kept for an instruction that succeeded.
Result(op, who, err, arg, amount) ==
    [op |-> op, who |-> who, err |-> err,
     arg |-> IF err = "Ok" THEN arg ELSE FALSE,
     amount |-> IF err = "Ok" THEN amount ELSE <<>>]

Init ==
    /\ market = NoMarket
    /\ participants = [b \in Identity |-> NoParticipant]
    /\ vault = <<>>
    /\ clock = 0
    /\ claimPaid = [b \in Identity |-> <<>>]
    /\ refundPaid = [b \in Identity |-> <<>>]
    /\ claimLog = [b \in Identity |-> <<>>]
    /\ last = Result("none", CREATOR, "Ok", FALSE, <<>>)

\* The clock only moves forward.
Tick ==
    /\ clock < MaxClock
    /\ clock' = clock + 1
    /\ UNCHANGED <<market, participants, vault, claimPaid, refundPaid, claimLog, last>>

\* ------------------------------------------------------------------------
\* create_market
\* ------------------------------------------------------------------------
\* create_market_err with a deadline equal to the current clock accepted.
create_market_err_deadline_now(m, qlen, stake_amount, deadline, now) ==
    IF m.is_init THEN "AccountAlreadyInUse"
    ELSE IF ~(qlen <= MAX_QUESTION_LEN) THEN "QuestionTooLong"
    ELSE IF ~Le(MinStake, stake_amount) THEN "StakeTooLow"
    ELSE IF ~(deadline >= now) THEN "InvalidDeadline"
    ELSE "Ok"

\* The checks of create_market in the order of the code; `init` on the market
\* account fails when the account already exists.
create_market_err(m, qlen, stake_amount, deadline, now) ==
    IF m.is_init THEN "AccountAlreadyInUse"
    ELSE IF ~(qlen <= MAX_QUESTION_LEN) THEN "QuestionTooLong"
    ELSE IF ~Le(MinStake, stake_amount) THEN "StakeTooLow"
    ELSE IF ~(deadline > now) THEN "InvalidDeadline"
    ELSE "Ok"

\* The fields no instruction reads back (market_index, question, category,
\* market_type, created_at, the bumps) are left out of the record.
create_market_new(creator, stake_amount, deadline) ==
    [is_init |-> TRUE, creator |-> creator, stake_amount |-> stake_amount,
     deadline |-> deadline, status |-> "Pending", pool_size |-> <<>>,
     yes_count |-> 0, no_count |-> 0, yes_pool |-> <<>>, no_pool |-> <<>>,
     total_participants |-> 0, outcome |-> None]

\* Every create_market on an existing market fails alike, whatever its
\* arguments: one call stands for them.
CreateInputs(m) ==
    IF m.is_init THEN {<<MAX_QUESTION_LEN, MinStake, MaxClock>>}
    ELSE QuestionLens \X AdvisoryStakeInputs \X Deadlines

create_market ==
    \E in \in CreateInputs(market) :
        LET qlen == in[1]
            stake_amount == in[2]
            deadline == in[3]
        IN
        LET err == create_market_err(market, qlen, stake_amount, deadline, clock)
        IN  /\ last' = Result("create_market", CREATOR, err, FALSE, stake_amount)
            /\ IF err = "Ok"
               THEN /\ market' = create_market_new(CREATOR, stake_amount, deadline)
                    /\ vault' = RentExempt
               ELSE UNCHANGED <<market, vault>>
            /\ UNCHANGED <<participants, clock, claimPaid, refundPaid, claimLog>>

\* ------------------------------------------------------------------------
\* place_bet
\* ------------------------------------------------------------------------
\* place_bet_err with a stake of exactly the minimum rejected.
place_bet_err_above_minimum(m, now, stake_amount, funded) ==
    IF ~m.is_init THEN "AccountNotInitialized"
    ELSE IF ~(m.status = "Pending" \/ m.status = "Active") THEN "MarketNotActive"
    ELSE IF ~(now < m.deadline) THEN "MarketExpired"
    ELSE IF ~Lt(MinStake, stake_amount) THEN "StakeTooLow"
    ELSE IF ~funded THEN "TransferFailed"
    ELSE "Ok"

\* place_bet_err without the check of the market's status.
place_bet_err_ignoring_status(m, now, stake_amount, funded) ==
    IF ~m.is_init THEN "AccountNotInitialized"
    ELSE IF ~(now < m.deadline) THEN "MarketExpired"
    ELSE IF ~Le(MinStake, stake_amount) THEN "StakeTooLow"
    ELSE IF ~funded THEN "TransferFailed"
    ELSE "Ok"

\* The checks of place_bet in the order of the code.  `funded` says whether
\* the bettor holds the lamports of the stake: the system-program transfer
\* into the vault fails otherwise and the error is propagated by `?`.
place_bet_err(m, now, stake_amount, funded) ==
    IF ~m.is_init THEN "AccountNotInitialized"
    ELSE IF ~(m.status = "Pending" \/ m.status = "Active") THEN "MarketNotActive"
    ELSE IF ~(now < m.deadline) THEN "MarketExpired"
    ELSE IF ~Le(MinStake, stake_amount) THEN "StakeTooLow"
    ELSE IF ~funded THEN "TransferFailed"
    ELSE "Ok"

\* place_bet_participant with a later stake replacing the recorded stake.
place_bet_participant_overwriting_stake(p, prediction, stake_amount) ==
    IF ~p.is_init
    THEN [is_init |-> TRUE, prediction |-> prediction,
          stake |-> stake_amount, claimed |-> FALSE]
    ELSE [p EXCEPT !.stake = stake_amount]

\* "Initialize or update participant account"
place_bet_participant(p, prediction, stake_amount) ==
    IF ~p.is_init
    THEN [is_init |-> TRUE, prediction |-> prediction,
          stake |-> stake_amount, claimed |-> FALSE]
    ELSE [p EXCEPT !.stake = Add(@, stake_amount)]

\* place_bet_market with total_participants raised by every stake, not only by
\* a bettor's first one.
place_bet_market_counting_every_stake(m, p, prediction, stake_amount) ==
    [m EXCEPT
        !.total_participants = @ + 1,
        !.pool_size = Add(@, stake_amount),
        !.yes_count = IF prediction THEN @ + 1 ELSE @,
        !.yes_pool  = IF prediction THEN Add(@, stake_amount) ELSE @,
        !.no_count  = IF prediction THEN @ ELSE @ + 1,
        !.no_pool   = IF prediction THEN @ ELSE Add(@, stake_amount),
        !.status    = IF @ = "Pending" THEN "Active" ELSE @]

\* "Update market stats" and "Activate market if it was pending".  The sums
\* are exact: the lamports staked exist, so no sum reaches 2^64.
place_bet_market(m, p, prediction, stake_amount) ==
    [m EXCEPT
        !.total_participants = IF ~p.is_init THEN @ + 1 ELSE @,
        !.pool_size = Add(@, stake_amount),
        !.yes_count = IF prediction THEN @ + 1 ELSE @,
        !.yes_pool  = IF prediction THEN Add(@, stake_amount) ELSE @,
        !.no_count  = IF prediction THEN @ ELSE @ + 1,
        !.no_pool   = IF prediction THEN @ ELSE Add(@, stake_amount),
        !.status    = IF @ = "Pending" THEN "Active" ELSE @]

\* Every place_bet on a market that takes no bets fails alike, whatever its
\* arguments: one call stands for them.
PlaceBetInputs(m, now) ==
    IF place_bet_err(m, now, MinStake, TRUE) = "Ok"
    THEN BOOLEAN \X StakeInputs \X BOOLEAN
    ELSE {<<TRUE, MinStake, TRUE>>}

place_bet ==
    \E bettor \in Identity, in \in PlaceBetInputs(market, clock) :
        LET prediction == in[1]
            stake_amount == in[2]
            funded == in[3]
            err == place_bet_err(market, clock, stake_amount, funded)
            p   == participants[bettor]
        IN  /\ err = "Ok" => market.yes_count + market.no_count < MaxBets
            /\ last' = Result("place_bet", bettor, err, prediction, stake_amount)
            /\ IF err = "Ok"
               THEN /\ vault' = Add(vault, stake_amount)
                    /\ participants' = [participants EXCEPT ![bettor] =
                           place_bet_participant(p, prediction, stake_amount)]
                    /\ market' = place_bet_market(market, p, prediction, stake_amount)
               ELSE UNCHANGED <<market, participants, vault>>
            /\ UNCHANGED <<clock, claimPaid, refundPaid, claimLog>>

\* ------------------------------------------------------------------------
\* resolve_market
\* ------------------------------------------------------------------------
\* resolve_market_err without the deadline check.
resolve_market_err_any_time(m, resolver, now) ==
    IF ~m.is_init THEN "AccountNotInitialized"
    ELSE IF ~(resolver = m.creator) THEN "UnauthorizedResolver"
    ELSE IF ~(m.status = "Active") THEN "MarketNotActive"
    ELSE "Ok"

resolve_market_err(m, resolver, now) ==
    IF ~m.is_init THEN "AccountNotInitialized"
    ELSE IF ~(resolver = m.creator) THEN "UnauthorizedResolver"
    ELSE IF ~(m.status = "Active") THEN "MarketNotActive"
    ELSE IF ~(now >= m.deadline) THEN "MarketNotExpired"
    ELSE "Ok"

\* resolve_market_new without the write of outcome.
resolve_market_new_without_outcome(m, outcome) ==
    [m EXCEPT !.status = "Resolved"]

resolve_market_new(m, outcome) ==
    [m EXCEPT !.status = "Resolved", !.outcome = Some(outcome)]

resolve_market ==
    \E resolver \in Identity, outcome \in BOOLEAN :
        LET err == resolve_market_err(market, resolver, clock)
        IN  /\ last' = Result("resolve_market", resolver, err, outcome, <<>>)
            /\ IF err = "Ok"
               THEN market' = resolve_market_new(market, outcome)
               ELSE UNCHANGED market
            /\ UNCHANGED <<participants, vault, clock, claimPaid, refundPaid, claimLog>>

\* ------------------------------------------------------------------------
\* claim_winnings
\* ------------------------------------------------------------------------
\* Whether the system program moves `amount` lamports out of the vault: the
\* vault must hold them, and the runtime rejects a transaction that leaves
\* the vault, created rent-exempt, with a balance that is neither zero nor
\* rent-exempt.
vault_can_pay(balance, amount) ==
    /\ Le(amount, balance)
    /\ \/ Sub(balance, amount) = <<>>
       \/ Le(RentExempt, Sub(balance, amount))

winning_pool_stake(m) ==
    IF m.outcome = Some(TRUE) THEN m.yes_pool ELSE m.no_pool

\* (stake as u128) * (pool_size as u128) / (winning_pool_stake as u128): the
\* product of two u64 values fits u128, so checked_mul never fails, and
\* checked_div fails only for a zero divisor, which is rejected before.
payout_u128(m, p) ==
    Div(Mul(p.stake, m.pool_size), winning_pool_stake(m))

\* `... as u64`
payout_of(m, p) == AsU64(payout_u128(m, p))

\* claim_winnings_err without the check of the claimed flag.
claim_winnings_err_ignoring_claimed(m, p, vault_balance) ==
    IF ~m.is_init \/ ~p.is_init THEN "AccountNotInitialized"
    ELSE IF ~(m.status = "Resolved") THEN "MarketNotResolved"
    ELSE IF m.outcome = None THEN "NoOutcome"
    ELSE IF ~(Some(p.prediction) = m.outcome) THEN "NotAWinner"
    ELSE IF ~Lt(<<>>, winning_pool_stake(m)) THEN "MarketNotActive"
    ELSE LET payout == payout_of(m, p)
         IN  IF ~Lt(<<>>, payout) THEN "MarketNotActive"
             ELSE IF ~Le(payout, vault_balance) THEN "MarketNotActive"
             ELSE IF ~vault_can_pay(vault_balance, payout) THEN "TransferFailed"
             ELSE "Ok"

\* claim_winnings_err without the check that the Participant's prediction is
\* the outcome.
claim_winnings_err_paying_losers(m, p, vault_balance) ==
    IF ~m.is_init \/ ~p.is_init THEN "AccountNotInitialized"
    ELSE IF ~(m.status = "Resolved") THEN "MarketNotResolved"
    ELSE IF p.claimed THEN "AlreadyClaimed"
    ELSE IF m.outcome = None THEN "NoOutcome"
    ELSE IF ~Lt(<<>>, winning_pool_stake(m)) THEN "MarketNotActive"
    ELSE LET payout == payout_of(m, p)
         IN  IF ~Lt(<<>>, payout) THEN "MarketNotActive"
             ELSE IF ~Le(payout, vault_balance) THEN "MarketNotActive"
             ELSE IF ~vault_can_pay(vault_balance, payout) THEN "TransferFailed"
             ELSE "Ok"

\* The checks of claim_winnings in the order of the code.  Anchor rejects the
\* instruction before the handler when the market or the Participant account
\* does not exist.
claim_winnings_err(m, p, vault_balance) ==
    IF ~m.is_init \/ ~p.is_init THEN "AccountNotInitialized"
    ELSE IF ~(m.status = "Resolved") THEN "MarketNotResolved"
    ELSE IF p.claimed THEN "AlreadyClaimed"
    ELSE IF m.outcome = None THEN "NoOutcome"
    ELSE IF ~(Some(p.prediction) = m.outcome) THEN "NotAWinner"
    ELSE IF ~Lt(<<>>, winning_pool_stake(m)) THEN "MarketNotActive"
    ELSE LET payout == payout_of(m, p)
         IN  IF ~Lt(<<>>, payout) THEN "MarketNotActive"
             ELSE IF ~Le(payout, vault_balance) THEN "MarketNotActive"
             ELSE IF ~vault_can_pay(vault_balance, payout) THEN "TransferFailed"
             ELSE "Ok"

\* claim_winnings_participant that also clears the stake that was paid out.
claim_winnings_participant_clearing_stake(p) ==
    [p EXCEPT !.claimed = TRUE, !.stake = <<>>]

claim_winnings_participant(p) == [p EXCEPT !.claimed = TRUE]

\* Whether a claim_winnings call of this Participant is entered in claimLog.
claim_logged(m, p) ==
    m.is_init /\ p.is_init /\ m.status = "Resolved" /\ Some(p.prediction) = m.outcome

\* claim_winnings with the claimed flag written before the payout is checked
\* and transferred, and kept when the claim fails there.
claim_winnings_marking_failed_claims ==
    \E winner \in Identity :
        LET p      == participants[winner]
            err    == claim_winnings_err(market, p, vault)
            payout == IF err = "Ok" THEN payout_of(market, p) ELSE <<>>
        IN  /\ claim_logged(market, p) => Len(claimLog[winner]) < MaxClaimCalls
            /\ last' = Result("claim_winnings", winner, err, FALSE, payout)
            /\ claimLog' = IF claim_logged(market, p)
                           THEN [claimLog EXCEPT ![winner] = Append(@, err)]
                           ELSE claimLog
            /\ IF err = "Ok"
               THEN /\ vault' = Sub(vault, payout)
                    /\ participants' = [participants EXCEPT ![winner] =
                           claim_winnings_participant(p)]
                    /\ claimPaid' = [claimPaid EXCEPT ![winner] = Append(@, payout)]
               ELSE /\ participants' =
                           IF err \in {"MarketNotActive", "TransferFailed"}
                           THEN [participants EXCEPT ![winner] =
                                    claim_winnings_participant(p)]
                           ELSE participants
                    /\ UNCHANGED <<vault, claimPaid>>
            /\ UNCHANGED <<market, clock, refundPaid>>

claim_winnings ==
    \E winner \in Identity :
        LET p      == participants[winner]
            err    == claim_winnings_err(market, p, vault)
            payout == IF err = "Ok" THEN payout_of(market, p) ELSE <<>>
        IN  /\ claim_logged(market, p) => Len(claimLog[winner]) < MaxClaimCalls
            /\ last' = Result("claim_winnings", winner, err, FALSE, payout)
            /\ claimLog' = IF claim_logged(market, p)
                           THEN [claimLog EXCEPT ![winner] = Append(@, err)]
                           ELSE claimLog
            /\ IF err = "Ok"
               THEN /\ vault' = Sub(vault, payout)
                    /\ participants' = [participants EXCEPT ![winner] =
                           claim_winnings_participant(p)]
                    /\ claimPaid' = [claimPaid EXCEPT ![winner] = Append(@, payout)]
               ELSE UNCHANGED <<participants, vault, claimPaid>>
            /\ UNCHANGED <<market, clock, refundPaid>>

\* ------------------------------------------------------------------------
\* cancel_market
\* ------------------------------------------------------------------------
\* cancel_market_err without the check of the signer.
cancel_market_err_by_anyone(m, creator) ==
    IF ~m.is_init THEN "AccountNotInitialized"
    ELSE IF ~(m.status = "Pending") THEN "CannotCancel"
    ELSE IF ~(m.total_participants = 0) THEN "CannotCancel"
    ELSE "Ok"

cancel_market_err(m, creator) ==
    IF ~m.is_init THEN "AccountNotInitialized"
    ELSE IF ~(creator = m.creator) THEN "UnauthorizedResolver"
    ELSE IF ~(m.status = "Pending") THEN "CannotCancel"
    ELSE IF ~(m.total_participants = 0) THEN "CannotCancel"
    ELSE "Ok"

cancel_market_new(m) == [m EXCEPT !.status = "Cancelled"]

cancel_market ==
    \E creator \in Identity :
        LET err == cancel_market_err(market, creator)
        IN  /\ last' = Result("cancel_market", creator, err, FALSE, <<>>)
            /\ IF err = "Ok"
               THEN market' = cancel_market_new(market)
               ELSE UNCHANGED market
            /\ UNCHANGED <<participants, vault, clock, claimPaid, refundPaid, claimLog>>

\* ------------------------------------------------------------------------
\* refund_stake
\* ------------------------------------------------------------------------
\* refund_stake_err without the check of the market's status.
refund_stake_err_in_any_status(m, p, vault_balance) ==
    IF ~m.is_init \/ ~p.is_init THEN "AccountNotInitialized"
    ELSE IF p.claimed THEN "AlreadyClaimed"
    ELSE IF ~vault_can_pay(vault_balance, p.stake) THEN "TransferFailed"
    ELSE "Ok"

refund_stake_err(m, p, vault_balance) ==
    IF ~m.is_init \/ ~p.is_init THEN "AccountNotInitialized"
    ELSE IF ~(m.status = "Cancelled") THEN "MarketNotCancelled"
    ELSE IF p.claimed THEN "AlreadyClaimed"
    ELSE IF ~vault_can_pay(vault_balance, p.stake) THEN "TransferFailed"
    ELSE "Ok"

refund_stake_participant(p) == [p EXCEPT !.claimed = TRUE]

refund_stake ==
    \E bettor \in Identity :
        LET p      == participants[bettor]
            err    == refund_stake_err(market, p, vault)
            refund == IF err = "Ok" THEN p.stake ELSE <<>>
        IN  /\ last' = Result("refund_stake", bettor, err, FALSE, refund)
            /\ IF err = "Ok"
               THEN /\ vault' = Sub(vault, refund)
                    /\ participants' = [participants EXCEPT ![bettor] =
                           refund_stake_participant(p)]
                    /\ refundPaid' = [refundPaid EXCEPT ![bettor] = Append(@, refund)]
               ELSE UNCHANGED <<participants, vault, refundPaid>>
            /\ UNCHANGED <<market, clock, claimPaid, claimLog>>

\* ------------------------------------------------------------------------
\* Specification
\* ------------------------------------------------------------------------
Next ==
    \/ Tick
    \/ create_market
    \/ place_bet
    \/ resolve_market
    \/ claim_winnings
    \/ cancel_market
    \/ refund_stake

Spec == Init /\ [][Next]_vars

\* ------------------------------------------------------------------------
\* Vocabulary of the properties
\* ------------------------------------------------------------------------
\* The bettors that have a Participant record for the market
Recorded == {b \in Identity : participants[b].is_init}

OnSide(side) == {b \in Recorded : participants[b].prediction = side}

RECURSIVE SumStakes(_)
SumStakes(S) ==
    IF S = {} THEN <<>>
    ELSE LET b == CHOOSE x \in S : TRUE
         IN  Add(participants[b].stake, SumStakes(S \ {b}))

RECURSIVE SumSeq(_)
SumSeq(s) == IF s = <<>> THEN <<>> ELSE Add(s[1], SumSeq(Tail(s)))

RECURSIVE SumPaid(_, _)
SumPaid(paid, S) ==
    IF S = {} THEN <<>>
    ELSE LET b == CHOOSE x \in S : TRUE
         IN  Add(SumSeq(paid[b]), SumPaid(paid, S \ {b}))

Resolved == market.is_init /\ market.status = "Resolved"

\* Participants whose prediction equals the outcome of the Resolved market
Winners == {b \in Recorded : Resolved /\ Some(participants[b].prediction) = market.outcome}

\* ------------------------------------------------------------------------
\* C1
\* ------------------------------------------------------------------------
\* C1: for a Resolved market, the payouts that successful claim_winnings
\* calls have transferred out of the escrow sum to at most pool_size.
C1_PayoutsWithinPool ==
    Resolved => Le(SumPaid(claimPaid, Identity), market.pool_size)

\* ------------------------------------------------------------------------
\* C2
\* ------------------------------------------------------------------------
\* C2: in every reachable state yes_pool is the sum of the stakes of the
\* Participants whose prediction is yes and no_pool the sum of the stakes of
\* those whose prediction is no (a bettor's later stakes go to the sub-pool of
\* the side its Participant records).
C2_SubPoolsMatchSides ==
    /\ market.yes_pool = SumStakes(OnSide(TRUE))
    /\ market.no_pool = SumStakes(OnSide(FALSE))

\* ------------------------------------------------------------------------
\* C3
\* ------------------------------------------------------------------------
\* C3: of the claim_winnings calls made for a Participant whose prediction is
\* the outcome of the Resolved market, the first succeeds and the second
\* fails with AlreadyClaimed, and no Participant is paid twice.
C3_ClaimOnceThenRejected ==
    \A b \in Identity :
        /\ Len(claimLog[b]) >= 1 => claimLog[b][1] = "Ok"
        /\ Len(claimLog[b]) >= 2 => claimLog[b][2] = "AlreadyClaimed"
        /\ Len(claimPaid[b]) <= 1

\* ------------------------------------------------------------------------
\* C4
\* ------------------------------------------------------------------------
\* C4: in every reachable state pool_size = yes_pool + no_pool and
\* total_participants is the number of bettors with a Participant record.
C4_PoolSizeAndParticipantCount ==
    /\ market.pool_size = Add(market.yes_pool, market.no_pool)
    /\ market.total_participants = Cardinality(Recorded)

\* Two bettors are recorded and both sub-pools hold stakes.
C4_Witness ==
    /\ Cardinality(Recorded) = 2
    /\ Lt(<<>>, market.yes_pool)
    /\ Lt(<<>>, market.no_pool)
    /\ market.yes_count + market.no_count = 3

\* ------------------------------------------------------------------------
\* C5
\* ------------------------------------------------------------------------
\* C5: the only status changes of a market are Pending to Active by a
\* successful place_bet, Active to Resolved by a successful resolve_market
\* with the clock at or after the deadline, and Pending to Cancelled by a
\* successful cancel_market with total_participants = 0; nothing leaves
\* Resolved or Cancelled.
C5_StatusStep ==
    market.is_init /\ market'.status # market.status =>
        /\ last'.err = "Ok"
        /\ \/ /\ market.status = "Pending" /\ market'.status = "Active"
              /\ last'.op = "place_bet"
           \/ /\ market.status = "Active" /\ market'.status = "Resolved"
              /\ last'.op = "resolve_market"
              /\ clock >= market.deadline
           \/ /\ market.status = "Pending" /\ market'.status = "Cancelled"
              /\ last'.op = "cancel_market"
              /\ market.total_participants = 0

C5_StatusTransitions == [][C5_StatusStep]_vars

\* The market went Pending, Active, Resolved, and instructions ran after it.
C5_Witness ==
    /\ Resolved
    /\ last.op \in {"place_bet", "cancel_market", "resolve_market"}
    /\ last.err # "Ok"

\* ------------------------------------------------------------------------
\* C6
\* ------------------------------------------------------------------------
\* C6: in a Resolved market every Participant whose prediction is the outcome
\* and whose claimed flag is false can claim successfully, whatever claims
\* were made before.
C6_WinnersCanAlwaysClaim ==
    \A b \in Winners :
        ~participants[b].claimed =>
            claim_winnings_err(market, participants[b], vault) = "Ok"

\* ------------------------------------------------------------------------
\* C7
\* ------------------------------------------------------------------------
\* C7: outcome is absent while the status is not Resolved, is set at the
\* transition to Resolved to the value passed to resolve_market, and is not
\* changed by any later instruction.
C7_OutcomeStep ==
    /\ (market.status # "Resolved" /\ market'.status = "Resolved") =>
           /\ last'.op = "resolve_market"
           /\ market'.outcome = Some(last'.arg)
    /\ market.status = "Resolved" => market'.outcome = market.outcome

C7_OutcomeWrittenOnce ==
    /\ [](market.status # "Resolved" => market.outcome = None)
    /\ [][C7_OutcomeStep]_vars

\* The market was resolved to "no" and a winner claimed afterwards.
C7_Witness ==
    /\ Resolved
    /\ market.outcome = Some(FALSE)
    /\ last.op = "claim_winnings"
    /\ last.err = "Ok"

\* ------------------------------------------------------------------------
\* C8
\* ------------------------------------------------------------------------
\* C8: a successful claim_winnings moves exactly
\* floor(stake * pool_size / winning_pool) from the escrow to the claimant
\* and sets the claimant's claimed flag.
C8_ClaimStep ==
    claimPaid' # claimPaid =>
        \E w \in Identity :
            LET floor == payout_u128(market, participants[w])
            IN  /\ last' = Result("claim_winnings", w, "Ok", FALSE, floor)
                /\ claimPaid' = [claimPaid EXCEPT ![w] = Append(@, floor)]
                /\ Le(floor, vault) /\ vault' = Sub(vault, floor)
                /\ participants'[w].claimed

C8_ClaimPaysFloorOfShare == [][C8_ClaimStep]_vars

\* ------------------------------------------------------------------------
\* C9
\* ------------------------------------------------------------------------
\* C9: claim_winnings for a Participant fails with MarketNotResolved when the
\* market is not Resolved, with AlreadyClaimed when the Participant's claimed
\* flag is set and with NotAWinner when its prediction differs from the
\* outcome; a rejected claim moves nothing and leaves the records as they
\* were.
C9_ClaimRejection(b) ==
    LET p   == participants[b]
        err == claim_winnings_err(market, p, vault)
    IN  /\ market.status # "Resolved" => err = "MarketNotResolved"
        /\ market.status = "Resolved" /\ p.claimed => err = "AlreadyClaimed"
        /\ (market.status = "Resolved" /\ ~p.claimed
                /\ Some(p.prediction) # market.outcome) => err = "NotAWinner"

C9_RejectedStep ==
    last'.op = "claim_winnings" /\ last'.err # "Ok" =>
        /\ vault' = vault
        /\ participants' = participants
        /\ claimPaid' = claimPaid
        /\ market' = market
        /\ LET b == last'.who
           IN  participants[b].is_init /\ market.is_init =>
                   last'.err = claim_winnings_err(market, participants[b], vault)

C9_ClaimRejections ==
    /\ [](\A b \in Recorded : C9_ClaimRejection(b))
    /\ [][C9_RejectedStep]_vars

\* A loser's claim on the Resolved market was rejected after a winner's claim
\* had been paid.
C9_Witness ==
    /\ Resolved
    /\ last.op = "claim_winnings"
    /\ last.err = "NotAWinner"
    /\ \E b \in Winners : participants[b].claimed

\* ------------------------------------------------------------------------
\* C10
\* ------------------------------------------------------------------------
\* C10: a resolve_market or cancel_market call by an identity that is not the
\* market's creator fails with UnauthorizedResolver in every status and at
\* every clock value, and leaves the market as it was.
C10_ForeignCallStep ==
    (/\ market.is_init
     /\ last'.op \in {"resolve_market", "cancel_market"}
     /\ last'.who # market.creator) =>
        /\ last'.err = "UnauthorizedResolver"
        /\ market' = market

C10_OnlyCreatorResolvesOrCancels == [][C10_ForeignCallStep]_vars

\* A foreign resolve_market call was rejected on a market that its creator
\* could have resolved at that moment.
C10_Witness ==
    /\ last.op = "resolve_market"
    /\ last.who # market.creator
    /\ last.err = "UnauthorizedResolver"
    /\ resolve_market_err(market, market.creator, clock) = "Ok"

\* ------------------------------------------------------------------------
\* C11
\* ------------------------------------------------------------------------
\* C11: refund_stake for a Participant of a market that is not Cancelled fails
\* with MarketNotCancelled; on a Cancelled market it fails with AlreadyClaimed
\* when the Participant's claimed flag is set and succeeds otherwise; a
\* successful refund_stake moves exactly Participant.stake from the escrow to
\* the bettor and sets claimed, and no Participant is refunded twice.
C11_RefundStep ==
    (last'.op = "refund_stake" /\ clock' = clock) =>
        LET b == last'.who
            p == participants[b]
        IN  /\ (market.is_init /\ p.is_init /\ market.status # "Cancelled") =>
                   last'.err = "MarketNotCancelled"
            /\ (market.is_init /\ p.is_init /\ market.status = "Cancelled"
                    /\ p.claimed) => last'.err = "AlreadyClaimed"
            /\ (market.is_init /\ p.is_init /\ market.status = "Cancelled"
                    /\ ~p.claimed) => last'.err = "Ok"
            /\ last'.err = "Ok" =>
                   /\ market.status = "Cancelled" /\ ~p.claimed
                   /\ Le(p.stake, vault) /\ vault' = Sub(vault, p.stake)
                   /\ last'.amount = p.stake
                   /\ refundPaid' = [refundPaid EXCEPT ![b] = Append(@, p.stake)]
                   /\ participants' = [participants EXCEPT ![b].claimed = TRUE]
            /\ last'.err # "Ok" =>
                   /\ vault' = vault
                   /\ refundPaid' = refundPaid
                   /\ participants' = participants

C12_PlaceBetChecks ==
    market.is_init =>
        /\ market.status \in {"Resolved", "Cancelled"} =>
               \A a \in StakeInputs, f \in BOOLEAN :
                   place_bet_err(market, clock, a, f) = "MarketNotActive"
        /\ (market.status \in {"Pending", "Active"} /\ clock >= market.deadline) =>
               \A a \in StakeInputs, f \in BOOLEAN :
                   place_bet_err(market, clock, a, f) = "MarketExpired"
        /\ (market.status \in {"Pending", "Active"} /\ clock < market.deadline) =>
               /\ place_bet_err(market, clock, Wide(MIN_STAKE), TRUE) = "Ok"
               /\ \A f \in BOOLEAN :
                      place_bet_err(market, clock, Wide(MIN_STAKE - 1), f) = "StakeTooLow"
               /\ \A a \in StakeInputs :
                      place_bet_err(market, clock, a, TRUE) = "Ok" =>
                          Le(Wide(MIN_STAKE), a)

C12_PlaceBetStep ==
    (last'.op = "place_bet" /\ last'.err = "Ok" /\ clock' = clock) =>
        LET b == last'.who
            a == last'.amount
        IN  /\ market.status \in {"Pending", "Active"}
            /\ clock < market.deadline
            /\ Le(Wide(MIN_STAKE), a)
            /\ market'.pool_size = Add(market.pool_size, a)
            /\ market'.yes_pool =
                   IF last'.arg THEN Add(market.yes_pool, a) ELSE market.yes_pool
            /\ market'.no_pool =
                   IF last'.arg THEN market.no_pool ELSE Add(market.no_pool, a)
            /\ participants'[b].stake = Add(participants[b].stake, a)
            /\ vault' = Add(vault, a)
            /\ market'.status = "Active"

C12_PlaceBetAcceptance ==
    /\ []C12_PlaceBetChecks
    /\ [][C12_PlaceBetStep]_vars

\* A bettor that already had a stake added exactly the minimum stake to an
\* Active market.
C12_Witness ==
    /\ last.op = "place_bet"
    /\ last.err = "Ok"
    /\ last.amount = Wide(MIN_STAKE)
    /\ Lt(Wide(MIN_STAKE), participants[last.who].stake)
    /\ market.status = "Active"
    /\ market.total_participants = 2

\* ------------------------------------------------------------------------
\* C13
\* ------------------------------------------------------------------------
\* C13: create_market for a market that does not exist yet fails with
\* QuestionTooLong when the question is longer than 200, otherwise with
\* StakeTooLow when stake_amount is below 10,000,000, otherwise with
\* InvalidDeadline when the deadline is not after the clock, and succeeds
\* otherwise; the market of a successful create_market is Pending with
\* pool_size, yes_pool, no_pool, yes_count, no_count and total_participants 0
\* and no outcome.
C13_CreateChecks ==
    ~market.is_init =>
        \A q \in QuestionLens, a \in AdvisoryStakeInputs, d \in Deadlines :
            LET err == create_market_err(market, q, a, d, clock)
            IN  /\ q > 200 => err = "QuestionTooLong"
                /\ (q <= 200 /\ Lt(a, Wide(10000000))) => err = "StakeTooLow"
                /\ (q <= 200 /\ Le(Wide(10000000), a) /\ d <= clock) =>
                       err = "InvalidDeadline"
                /\ (q <= 200 /\ Le(Wide(10000000), a) /\ d > clock) => err = "Ok"

C13_CreateStep ==
    (last'.op = "create_market" /\ last'.err = "Ok" /\ clock' = clock) =>
        /\ ~market.is_init
        /\ market'.is_init
        /\ market'.status = "Pending"
        /\ market'.pool_size = <<>> /\ market'.yes_pool = <<>> /\ market'.no_pool = <<>>
        /\ market'.yes_count = 0 /\ market'.no_count = 0
        /\ market'.total_participants = 0
        /\ market'.outcome = None
        /\ market'.deadline > clock
        /\ Le(Wide(10000000), market'.stake_amount)

C13_CreatedPendingAndEmpty ==
    /\ []C13_CreateChecks
    /\ [][C13_CreateStep]_vars

\* A market was created after the clock had advanced, with a deadline still
\* ahead of it.
C13_Witness ==
    /\ last.op = "create_market"
    /\ last.err = "Ok"
    /\ clock >= 1
    /\ market.status = "Pending"
    /\ market.deadline > clock

\* ------------------------------------------------------------------------
\* C14
\* ------------------------------------------------------------------------
\* C14: an instruction that returns an error leaves the Market record, every
\* Participant record and the escrow balance as they were; on an existing
\* market a Participant's stake grows exactly when the escrow grows, by the
\* same amount, and a claimed flag is set exactly when the escrow shrinks.
C14_StakedBy(b) == participants'[b].stake # participants[b].stake

C14_Marked(b) == ~participants[b].claimed /\ participants'[b].claimed

C14_AtomicStep ==
    /\ (last'.err # "Ok" /\ clock' = clock) =>
           /\ market' = market
           /\ participants' = participants
           /\ vault' = vault
    /\ market.is_init =>
           /\ (\E b \in Identity : C14_StakedBy(b)) <=> Lt(vault, vault')
           /\ \A b \in Identity : C14_StakedBy(b) =>
                  /\ participants'[b].stake =
                         Add(participants[b].stake, Sub(vault', vault))
                  /\ \A c \in Identity \ {b} : ~C14_StakedBy(c)
           /\ (\E b \in Identity : C14_Marked(b)) <=> Lt(vault', vault)
           /\ \A b \in Identity :
                  participants[b].claimed => participants'[b].claimed

C14_AllOrNothing == [][C14_AtomicStep]_vars

\* The claim of a Participant whose prediction is the outcome failed at the
\* check of the escrow balance, after all other checks had passed.
C14_Witness ==
    /\ last.op = "claim_winnings"
    /\ last.err = "MarketNotActive"
    /\ last.who \in Winners
    /\ ~participants[last.who].claimed

\* ------------------------------------------------------------------------
\* C15
\* ------------------------------------------------------------------------
\* C15: when the claim_winnings of a Participant whose prediction is the
\* outcome fails because the winning sub-pool is 0, the payout is 0 or the
\* escrow balance is below the payout, the error is not the MarketNotActive
\* that place_bet and resolve_market return for a wrong lifecycle phase.
C15_ArithmeticFailure(b) ==
    LET p == participants[b]
    IN  /\ ~p.claimed
        /\ \/ winning_pool_stake(market) = <<>>
           \/ payout_of(market, p) = <<>>
           \/ Lt(vault, payout_of(market, p))

C15_ArithmeticErrorsAreDistinct ==
    \A b \in Winners :
        C15_ArithmeticFailure(b) =>
            /\ claim_winnings_err(market, participants[b], vault) # "Ok"
            /\ claim_winnings_err(market, participants[b], vault) #
                   place_bet_err([market EXCEPT !.status = "Resolved"],
                                 clock, Wide(MIN_STAKE), TRUE)
            /\ claim_winnings_err(market, participants[b], vault) #
                   resolve_market_err([market EXCEPT !.status = "Resolved"],
                                      market.creator, clock)

\* ------------------------------------------------------------------------
\* C16
\* ------------------------------------------------------------------------
\* C16: once the market is Resolved no instruction changes pool_size,
\* yes_pool, no_pool, yes_count, no_count or total_participants, nor the
\* stake or prediction of any Participant; a claim_winnings changes nothing
\* but the claimant's claimed flag and the escrow balance, and the payout of
\* a successful claim is the quotient fixed by these unchanged values.
C16_FrameStep ==
    Resolved =>
        /\ market'.pool_size = market.pool_size
        /\ market'.yes_pool = market.yes_pool
        /\ market'.no_pool = market.no_pool
        /\ market'.yes_count = market.yes_count
        /\ market'.no_count = market.no_count
        /\ market'.total_participants = market.total_participants
        /\ \A b \in Identity :
               /\ participants'[b].is_init = participants[b].is_init
               /\ participants'[b].stake = participants[b].stake
               /\ participants'[b].prediction = participants[b].prediction
        /\ (last'.op = "claim_winnings" /\ clock' = clock) =>
               /\ market' = market
               /\ \A b \in Identity \ {last'.who} : participants'[b] = participants[b]
               /\ last'.err = "Ok" =>
                      last'.amount = payout_of(market', participants'[last'.who])

C16_ResolvedTotalsAreFrozen == [][C16_FrameStep]_vars

\* Two Participants whose prediction is the outcome have both been paid, one
\* after the other.
C16_Witness ==
    /\ Resolved
    /\ last.op = "claim_winnings"
    /\ last.err = "Ok"
    /\ Cardinality({b \in Winners : participants[b].claimed}) = 2

\* ------------------------------------------------------------------------
\* C17
\* ------------------------------------------------------------------------
\* C17: in every reachable state of an existing market the escrow balance
\* plus the payouts and refunds paid out of it equals the balance the escrow
\* was created with plus pool_size, and pool_size is the sum of the stakes of
\* all Participants; while the market is Pending or Active nothing has been
\* paid and the escrow holds pool_size above the balance it was created with.
C17_TotalPaid ==
    Add(SumPaid(claimPaid, Identity), SumPaid(refundPaid, Identity))

C17_EscrowConservation ==
    market.is_init =>
        /\ Add(vault, C17_TotalPaid) = Add(Wide(VAULT_RENT), market.pool_size)
        /\ market.pool_size = SumStakes(Recorded)
        /\ market.status \in {"Pending", "Active"} =>
               /\ C17_TotalPaid = <<>>
               /\ Sub(vault, Wide(VAULT_RENT)) = market.pool_size

\* A payout has left the escrow of a Resolved market with two Participants
\* and stakes of another Participant remain in it.
C17_Witness ==
    /\ Resolved
    /\ Cardinality(Recorded) = 2
    /\ Lt(<<>>, C17_TotalPaid)
    /\ Lt(Wide(VAULT_RENT), vault)

\* ------------------------------------------------------------------------
\* C18
\* ------------------------------------------------------------------------
\* C18: in every reachable state an existing market is Pending exactly when
\* it is not Cancelled and no bettor has a Participant record; a Cancelled
\* market has no Participant record and no staked value, and no refund_stake
\* has ever succeeded.
C18_CancelledMarketsAreEmpty ==
    market.is_init =>
        /\ market.status = "Pending" <=>
               (market.status # "Cancelled" /\ Recorded = {})
        /\ market.status = "Cancelled" =>
               /\ Recorded = {}
               /\ market.pool_size = <<>>
               /\ market.total_participants = 0
               /\ vault = Wide(VAULT_RENT)
        /\ \A b \in Identity : refundPaid[b] = <<>>
        /\ last.op = "refund_stake" => last.err # "Ok"

\* After the market was cancelled a bettor asked for a refund and was
\* rejected.
C18_Witness ==
    /\ market.is_init
    /\ market.status = "Cancelled"
    /\ last.op = "refund_stake"
    /\ last.err # "Ok"

\* ------------------------------------------------------------------------
\* C19
\* ------------------------------------------------------------------------
\* C19: for every Participant of a Resolved market whose prediction is the
\* outcome, the winning sub-pool is greater than 0 and at least the
\* Participant's stake, and the quotient stake * pool_size / winning_pool is
\* at least the stake, at most pool_size, unchanged by the narrowing to 64
\* bits and greater than 0.
C19_WinnerPayoutInRange ==
    \A b \in Winners :
        LET p  == participants[b]
            wp == winning_pool_stake(market)
        IN  /\ Lt(<<>>, wp)
            /\ Le(p.stake, wp)
            /\ Lt(<<>>, wp) =>
                   LET q == payout_u128(market, p)
                   IN  /\ Le(p.stake, q)
                       /\ Le(q, market.pool_size)
                       /\ AsU64(q) = q
                       /\ Lt(<<>>, AsU64(q))

\* ------------------------------------------------------------------------
\* C20
\* ------------------------------------------------------------------------
\* C20: when the market is Resolved to a side that no Participant predicted,
\* the escrow holds the whole pool_size above the balance it was created
\* with and nothing has been paid, and it stays so: every later
\* claim_winnings, refund_stake and cancel_market fails and no step changes
\* the escrow or the market.
C20_NoWinner == Resolved /\ Winners = {}

C20_PoolInEscrow ==
    C20_NoWinner =>
        /\ vault = Add(Wide(VAULT_RENT), market.pool_size)
        /\ \A b \in Identity : claimPaid[b] = <<>> /\ refundPaid[b] = <<>>

C20_NoWinnerStep ==
    C20_NoWinner =>
        /\ vault' = vault
        /\ market' = market
        /\ claimPaid' = claimPaid
        /\ refundPaid' = refundPaid
        /\ (clock' = clock /\ last'.op \in {"claim_winnings", "refund_stake",
                                           "cancel_market"}) => last'.err # "Ok"

C20_PoolStaysWithoutWinner ==
    /\ []C20_PoolInEscrow
    /\ [][C20_NoWinnerStep]_vars

\* Both Participants predicted the side that lost, although the winning
\* sub-pool holds stakes, and a claim was rejected with NotAWinner.
C20_Witness ==
    /\ C20_NoWinner
    /\ Cardinality(Recorded) = 2
    /\ Lt(<<>>, winning_pool_stake(market))
    /\ last.op = "claim_winnings"
    /\ last.err = "NotAWinner"

====
